---------------------------- MODULE Spec2Model ----------------------------
(***************************************************************************)
(* The conditional-access resource controller (create / read / update /   *)
(* delete of one remote object) on top of the generated REST client, with *)
(* the state-refresh polling that follows an update and a delete.         *)
(*                                                                         *)
(* Time is counted in poll intervals.  The remote service is an external  *)
(* collaborator: each remote call draws its answer from the answers the   *)
(* service can give.  Two environment modes restrict it where a property  *)
(* speaks about a particular remote behaviour: "absent" (every call on    *)
(* the identifier answers not-found) and "stuck" (every read succeeds and *)
(* never shows the written values).                                       *)
(***************************************************************************)
EXTENDS Naturals, Sequences, FiniteSets

\* Lifetime of an operation's context, in poll intervals (schema timeout / MinTimeout).
TimeoutTicks == 6
\* Lifetime of the contexts in the concurrent specification.
ConcTimeoutTicks == 2

MaxClock == TimeoutTicks + 1

Procs == {"p1", "p2"}
Ops == {"Create", "Read", "Update", "Delete"}
Kinds == {"ip", "country", "other"}

ContinuousTargetOccurence_short == 5 - 1

\* ContinuousTargetOccurence of the StateChangeConf Update builds
ContinuousTargetOccurence == 5
\* consecutive "Absent" observations the deletion wait requires
DeletionTargetOccurence == 1

VARIABLES
    op,              \* lifecycle operation each process runs
    pc,              \* position of each process in its operation
    d,               \* schema.ResourceData: id and configured blocks
    populated,       \* fields Read has set on d
    env,             \* behaviour of the remote service for the process's identifier
    refresh,         \* updateRefreshFunc: "nil", "ip" or "country"
    sent,            \* an update request has been issued by Update
    occ,             \* targetOccurence of the running wait
    hist,            \* labels the refresh function reported in the running wait
    reads,           \* answers of the reads of the deletion probes
    lastObs,         \* object the last successful update probe fetched
    outcome,         \* how the wait ended: "none", "success", "error", "timeout"
    result,          \* what the operation returned: "none", "success", "error", "panic"
    now,             \* clock
    probeAt,         \* earliest time of the next probe
    ctxDeadline,     \* deadline of the operation's context
    waitDeadline,    \* deadline of the running wait
    DisableRetries,  \* client.BaseClient.DisableRetries, shared by all operations
    written,         \* values each process has stored in DisableRetries
    lastGet,         \* kind of the last read of each process and the flag it ran under
    calledAfterFail, \* a remote call was issued after the wait failed
    preAbsent,       \* the pre-delete existence check answered not-found
    readKind         \* what the Read phase fetched

vars == <<op, pc, d, populated, env, refresh, sent, occ, hist, reads, lastObs,
          outcome, result, now, probeAt, ctxDeadline, waitDeadline,
          DisableRetries, written, lastGet, calledAfterFail, preAbsent, readKind>>

-----------------------------------------------------------------------------
\* Values written by Update and values the service may still show.
Desired == [name |-> "new", list |-> "new", flag |-> TRUE]

NoObject == [status |-> "none", kind |-> "other", id |-> "nil",
             name |-> "old", list |-> "old", flag |-> FALSE]
NotFound == [NoObject EXCEPT !.status = "notfound"]
OtherError == [NoObject EXCEPT !.status = "error"]

\* The objects a read of identifier id can return; the ID field may be missing.
Objects(kinds, id) ==
    [status : {"ok"}, kind : kinds, id : {"nil", id},
     name : {"old", "new"}, list : {"old", "new"}, flag : BOOLEAN]

\* Answers of Get / GetIP / GetCountry: the object, or err with status 404, or another err.
GetResps(e, kinds, id) ==
    IF e = "absent" THEN {NotFound}
    ELSE IF e = "stuck" THEN {o \in Objects(kinds, id) : o.list # Desired.list}
    ELSE Objects(kinds, id) \cup {NotFound, OtherError}

\* Answers of Update / Delete: any status but the valid one is returned as err.
CallResps(e) ==
    IF e = "absent" THEN {"notfound"}
    ELSE IF e = "stuck" THEN {"ok"}
    ELSE {"ok", "notfound", "error"}

\* Answers of CreateIP / CreateCountry: an object with an ID, one without, or err.
CreateResps(id) == {id, "nil", "empty", "error"}

\* The identifier the remote system gave, or gives, the object of each process.
RemoteId(p) == IF p = "p1" THEN "id1" ELSE "id2"

\* Values a read of the unsynchronised DisableRetries flag can observe.
FlagViews(p) == {DisableRetries} \cup UNION {written[q] : q \in Procs \ {p}}


-----------------------------------------------------------------------------
(* Pure steps of the controller *)

\* authenticationStrengthResourceRead after its Get: the 404 branch, the nil
\* result, then the two subtype assertions.
ResourceRead(id, pop, r) ==
    IF r.status = "notfound"
      THEN [id |-> "", populated |-> pop, result |-> "success"]
    ELSE IF r.status # "ok"
      THEN [id |-> id, populated |-> pop, result |-> "error"]
    ELSE IF r.kind \in {"ip", "country"}
      THEN IF r.id = "nil"
             THEN [id |-> id, populated |-> pop, result |-> "error"]
             ELSE [id |-> r.id, populated |-> pop \cup {"display_name", r.kind},
                   result |-> "success"]
    ELSE [id |-> id, populated |-> pop, result |-> "success"]

\* The refresh closures of Update: the fetched block against the configured one.
updateRefreshFunc(r) ==
    IF r.status # "ok" THEN "Error"
    ELSE IF r.list # Desired.list THEN "Pending"
    ELSE IF r.flag # Desired.flag THEN "Pending"
    ELSE "Updated"

DeletionProbe_swapped(status) ==
    IF status = "notfound" THEN "exists"
    ELSE IF status # "ok" THEN "error"
    ELSE "gone"

\* The closure handed to WaitForDeletion: does the object still exist?
DeletionProbe(status) ==
    IF status = "notfound" THEN "gone"
    ELSE IF status # "ok" THEN "error"
    ELSE "exists"

\* The refresh function WaitForDeletion builds around the closure.
DeletionLabel(verdict) ==
    IF verdict = "error" THEN "Error"
    ELSE IF verdict = "exists" THEN "Pending"
    ELSE "Absent"

StateConfTimeout_unbounded(deadline, t) == deadline + MaxClock

\* Timeout: time.Until(timeout), timeout the deadline of ctx.
StateConfTimeout(deadline, t) == IF deadline > t THEN deadline - t ELSE 0

\* WaitForDeletion's Timeout: the time left until the deadline of ctx.
DeletionTimeout(deadline, t) == IF deadline > t THEN deadline - t ELSE 0

UpdateAfterWait_ignored(o) == "read"

\* Update after WaitForStateContext: an error ends the operation, else Read.
UpdateAfterWait(o) == IF o # "success" THEN "fail" ELSE "read"

DeleteAfterWait_ignored(o) == "ok"

\* Delete after WaitForDeletion: an error ends the operation, else return nil.
DeleteAfterWait(o) == IF o # "success" THEN "fail" ELSE "ok"

\* One observation of the state-refresh polling primitive: an error aborts, a
\* target label counts towards the required consecutive occurrences, a pending
\* label resets the count, any other label leaves the wait to its timeout.
PollStep(label, n, need, target, pending) ==
    IF label = "Error" THEN [occ |-> n, outcome |-> "error"]
    ELSE IF label = target
      THEN IF n + 1 >= need THEN [occ |-> n + 1, outcome |-> "success"]
           ELSE [occ |-> n + 1, outcome |-> "none"]
    ELSE IF label = pending THEN [occ |-> 0, outcome |-> "none"]
    ELSE [occ |-> n, outcome |-> "none"]

-----------------------------------------------------------------------------
(* Initial states *)

Setups ==
    {[op |-> "None", ip |-> FALSE, country |-> FALSE, nameChange |-> FALSE, env |-> "any"]}
    \cup
    {s \in [op : Ops, ip : BOOLEAN, country : BOOLEAN, nameChange : BOOLEAN,
            env : {"any", "absent", "stuck"}] :
        /\ s.nameChange => s.op = "Update"
        /\ s.env = "absent" => s.op = "Delete"
        /\ s.env = "stuck" => s.op = "Update"}

InitWith(T, cfgs) ==
    \E cfg \in cfgs :
      /\ op = [p \in Procs |-> cfg[p].op]
      /\ env = [p \in Procs |-> cfg[p].env]
      /\ d = [p \in Procs |->
                [id |-> IF cfg[p].op = "Create" THEN "" ELSE RemoteId(p),
                 ip |-> cfg[p].ip, country |-> cfg[p].country,
                 nameChange |-> cfg[p].nameChange]]
      /\ pc = [p \in Procs |->
                 IF cfg[p].op = "None" THEN "done"
                 ELSE IF cfg[p].op = "Read" THEN "read" ELSE "start"]
      /\ populated = [p \in Procs |-> {}]
      /\ refresh = [p \in Procs |-> "nil"]
      /\ sent = [p \in Procs |-> FALSE]
      /\ occ = [p \in Procs |-> 0]
      /\ hist = [p \in Procs |-> <<>>]
      /\ reads = [p \in Procs |-> <<>>]
      /\ lastObs = [p \in Procs |-> NoObject]
      /\ outcome = [p \in Procs |-> "none"]
      /\ result = [p \in Procs |-> "none"]
      /\ now = 0
      /\ probeAt = [p \in Procs |-> 0]
      /\ ctxDeadline = [p \in Procs |-> T]
      /\ waitDeadline = [p \in Procs |-> T]
      /\ DisableRetries = FALSE
      /\ written = [p \in Procs |-> {}]
      /\ lastGet = [p \in Procs |-> [kind |-> "none", disabled |-> FALSE]]
      /\ calledAfterFail = [p \in Procs |-> FALSE]
      /\ preAbsent = [p \in Procs |-> FALSE]
      /\ readKind = [p \in Procs |-> "none"]

\* One operation runs alone.
Init ==
    InitWith(TimeoutTicks,
             {c \in [Procs -> Setups] : c["p1"].op # "None" /\ c["p2"].op = "None"})

-----------------------------------------------------------------------------
(* Steps *)

Finish(p, res) ==
    /\ pc' = [pc EXCEPT ![p] = "done"]
    /\ result' = [result EXCEPT ![p] = res]

Goto(p, where) ==
    /\ pc' = [pc EXCEPT ![p] = where]
    /\ UNCHANGED result

RemoteCall(p) ==
    calledAfterFail' =
        [calledAfterFail EXCEPT ![p] = @ \/ outcome[p] \in {"error", "timeout"}]

Got(p, kind, seen) ==
    lastGet' = [lastGet EXCEPT ![p] = [kind |-> kind, disabled |-> seen]]

ObjKind(r) == IF r.status = "ok" THEN r.kind ELSE r.status

\* Create: CreateIP or CreateCountry by the configured block, then Read.
CreateCall(p) ==
    /\ op[p] = "Create" /\ pc[p] = "start"
    /\ IF d[p].ip \/ d[p].country
         THEN \E r \in CreateResps(RemoteId(p)) :
                /\ RemoteCall(p)
                /\ IF r \in {"error", "nil", "empty"}
                     THEN Finish(p, "error") /\ UNCHANGED d
                     ELSE /\ d' = [d EXCEPT ![p].id = r]
                          /\ Goto(p, "read")
         ELSE Finish(p, "error") /\ UNCHANGED <<d, calledAfterFail>>
    /\ UNCHANGED <<op, populated, env, refresh, sent, occ, hist, reads, lastObs,
                   outcome, now, probeAt, ctxDeadline, waitDeadline,
                   DisableRetries, written, lastGet, preAbsent, readKind>>

\* Read: one Get, then dispatch on the subtype of the result.
ReadGet(p) ==
    /\ pc[p] = "read"
    /\ \E r \in GetResps(env[p], Kinds, d[p].id), seen \in FlagViews(p) :
         LET out == ResourceRead(d[p].id, populated[p], r) IN
           /\ RemoteCall(p)
           /\ Got(p, "read", seen)
           /\ readKind' = [readKind EXCEPT ![p] = ObjKind(r)]
           /\ d' = [d EXCEPT ![p].id = out.id]
           /\ populated' = [populated EXCEPT ![p] = out.populated]
           /\ Finish(p, out.result)
    /\ UNCHANGED <<op, env, refresh, sent, occ, hist, reads, lastObs, outcome,
                   now, probeAt, ctxDeadline, waitDeadline, DisableRetries,
                   written, preAbsent>>


\* Entering a wait: the deadline of the wait and the first probe, due at once.
StartWait(p, timeout) ==
    /\ waitDeadline' = [waitDeadline EXCEPT ![p] = now + timeout]
    /\ probeAt' = [probeAt EXCEPT ![p] = now]

\* Update, first block: UpdateIP and the ip refresh closure when ip is configured.
UpdateIPCall(p) ==
    /\ op[p] = "Update" /\ pc[p] = "start"
    /\ IF d[p].ip
         THEN \E r \in CallResps(env[p]) :
                /\ RemoteCall(p)
                /\ IF r # "ok"
                     THEN Finish(p, "error") /\ UNCHANGED <<refresh, sent>>
                     ELSE /\ refresh' = [refresh EXCEPT ![p] = "ip"]
                          /\ sent' = [sent EXCEPT ![p] = TRUE]
                          /\ Goto(p, "upd_country")
         ELSE Goto(p, "upd_country") /\ UNCHANGED <<refresh, sent, calledAfterFail>>
    /\ UNCHANGED <<op, d, populated, env, occ, hist, reads, lastObs, outcome,
                   now, probeAt, ctxDeadline, waitDeadline, DisableRetries,
                   written, lastGet, preAbsent, readKind>>

\* Update, second block: UpdateCountry and the country refresh closure when
\* country is configured; then the StateChangeConf is built and the wait starts.
UpdateCountryCall(p) ==
    /\ op[p] = "Update" /\ pc[p] = "upd_country"
    /\ IF d[p].country
         THEN \E r \in CallResps(env[p]) :
                /\ RemoteCall(p)
                /\ IF r # "ok"
                     THEN /\ Finish(p, "error")
                          /\ UNCHANGED <<refresh, sent, waitDeadline, probeAt>>
                     ELSE /\ refresh' = [refresh EXCEPT ![p] = "country"]
                          /\ sent' = [sent EXCEPT ![p] = TRUE]
                          /\ StartWait(p, StateConfTimeout(ctxDeadline[p], now))
                          /\ Goto(p, "wait")
         ELSE /\ StartWait(p, StateConfTimeout(ctxDeadline[p], now))
              /\ Goto(p, "wait")
              /\ UNCHANGED <<refresh, sent, calledAfterFail>>
    /\ UNCHANGED <<op, d, populated, env, occ, hist, reads, lastObs, outcome,
                   now, ctxDeadline, DisableRetries, written, lastGet,
                   preAbsent, readKind>>

\* One probe of the update wait: the wait calls Refresh (a nil function value
\* panics), the closure reads the object and labels it, the wait counts it.
UpdateProbe(p) ==
    /\ op[p] = "Update" /\ pc[p] = "wait"
    /\ now >= probeAt[p] /\ now < waitDeadline[p]
    /\ IF refresh[p] = "nil"
         THEN /\ Finish(p, "panic")
              /\ UNCHANGED <<occ, hist, lastObs, outcome, probeAt, lastGet,
                             calledAfterFail>>
         ELSE \E r \in GetResps(env[p], {refresh[p]}, d[p].id), seen \in FlagViews(p) :
                LET label == updateRefreshFunc(r)
                    step == PollStep(label, occ[p], ContinuousTargetOccurence,
                                     "Updated", "Pending")
                IN /\ RemoteCall(p)
                   /\ Got(p, "refresh", seen)
                   /\ lastObs' = [lastObs EXCEPT ![p] = r]
                   /\ hist' = [hist EXCEPT ![p] = Append(@, label)]
                   /\ occ' = [occ EXCEPT ![p] = step.occ]
                   /\ outcome' = [outcome EXCEPT ![p] = step.outcome]
                   /\ probeAt' = [probeAt EXCEPT ![p] = now + 1]
                   /\ Goto(p, IF step.outcome = "none" THEN "wait" ELSE "wait_done")
    /\ UNCHANGED <<op, d, populated, env, refresh, sent, reads, now, ctxDeadline,
                   waitDeadline, DisableRetries, written, preAbsent, readKind>>

\* The deadline of a wait elapses between probes: the wait stops polling.
WaitTimeout(p) ==
    /\ pc[p] = "wait" /\ now >= waitDeadline[p]
    /\ outcome' = [outcome EXCEPT ![p] = "timeout"]
    /\ Goto(p, "wait_done")
    /\ UNCHANGED <<op, d, populated, env, refresh, sent, occ, hist, reads,
                   lastObs, now, probeAt, ctxDeadline, waitDeadline,
                   DisableRetries, written, lastGet, calledAfterFail,
                   preAbsent, readKind>>

\* The operation takes the result of its wait.
AfterWait(p) ==
    /\ pc[p] = "wait_done"
    /\ IF op[p] = "Update"
         THEN IF UpdateAfterWait(outcome[p]) = "fail"
                THEN Finish(p, "error") ELSE Goto(p, "read")
         ELSE IF DeleteAfterWait(outcome[p]) = "fail"
                THEN Finish(p, "error") ELSE Finish(p, "success")
    /\ UNCHANGED <<op, d, populated, env, refresh, sent, occ, hist, reads,
                   lastObs, outcome, now, probeAt, ctxDeadline, waitDeadline,
                   DisableRetries, written, lastGet, calledAfterFail,
                   preAbsent, readKind>>

\* Delete, ip block: GetIP; not-found means already deleted; a trusted
\* location is first made untrusted.
DeleteCheckIP(p) ==
    /\ op[p] = "Delete" /\ pc[p] = "start"
    /\ IF d[p].ip
         THEN \E r \in GetResps(env[p], {"ip"}, d[p].id), seen \in FlagViews(p) :
                /\ RemoteCall(p)
                /\ Got(p, "precheck", seen)
                /\ preAbsent' = [preAbsent EXCEPT ![p] = @ \/ r.status = "notfound"]
                /\ IF r.status = "notfound" THEN Finish(p, "success")
                   ELSE IF r.status # "ok" THEN Finish(p, "error")
                   ELSE IF r.flag THEN Goto(p, "del_untrust")
                   ELSE Goto(p, "del_country")
         ELSE Goto(p, "del_country") /\ UNCHANGED <<lastGet, preAbsent, calledAfterFail>>
    /\ UNCHANGED <<op, d, populated, env, refresh, sent, occ, hist, reads,
                   lastObs, outcome, now, probeAt, ctxDeadline, waitDeadline,
                   DisableRetries, written, readKind>>

\* Delete, ip block: UpdateIP with IsTrusted false.
DeleteUntrust(p) ==
    /\ op[p] = "Delete" /\ pc[p] = "del_untrust"
    /\ \E r \in CallResps(env[p]) :
         /\ RemoteCall(p)
         /\ IF r # "ok" THEN Finish(p, "error") ELSE Goto(p, "del_country")
    /\ UNCHANGED <<op, d, populated, env, refresh, sent, occ, hist, reads,
                   lastObs, outcome, now, probeAt, ctxDeadline, waitDeadline,
                   DisableRetries, written, lastGet, preAbsent, readKind>>

\* Delete, country block: GetCountry; not-found means already deleted.
DeleteCheckCountry(p) ==
    /\ op[p] = "Delete" /\ pc[p] = "del_country"
    /\ IF d[p].country
         THEN \E r \in GetResps(env[p], {"country"}, d[p].id), seen \in FlagViews(p) :
                /\ RemoteCall(p)
                /\ Got(p, "precheck", seen)
                /\ preAbsent' = [preAbsent EXCEPT ![p] = @ \/ r.status = "notfound"]
                /\ IF r.status = "notfound" THEN Finish(p, "success")
                   ELSE IF r.status # "ok" THEN Finish(p, "error")
                   ELSE Goto(p, "del_call")
         ELSE Goto(p, "del_call") /\ UNCHANGED <<lastGet, preAbsent, calledAfterFail>>
    /\ UNCHANGED <<op, d, populated, env, refresh, sent, occ, hist, reads,
                   lastObs, outcome, now, probeAt, ctxDeadline, waitDeadline,
                   DisableRetries, written, readKind>>

\* Delete: the delete request; any error, not-found included, ends the
\* operation; otherwise WaitForDeletion starts.
DeleteCall(p) ==
    /\ op[p] = "Delete" /\ pc[p] = "del_call"
    /\ \E r \in CallResps(env[p]) :
         /\ RemoteCall(p)
         /\ IF r # "ok"
              THEN Finish(p, "error") /\ UNCHANGED <<waitDeadline, probeAt>>
              ELSE /\ StartWait(p, DeletionTimeout(ctxDeadline[p], now))
                   /\ Goto(p, "wait")
    /\ UNCHANGED <<op, d, populated, env, refresh, sent, occ, hist, reads,
                   lastObs, outcome, now, ctxDeadline, DisableRetries, written,
                   lastGet, preAbsent, readKind>>

\* Deletion probe, first statement: DisableRetries = true.
ProbeSetFlag(p) ==
    /\ op[p] = "Delete" /\ pc[p] = "wait"
    /\ now >= probeAt[p] /\ now < waitDeadline[p]
    /\ DisableRetries' = TRUE
    /\ written' = [written EXCEPT ![p] = @ \cup {TRUE}]
    /\ Goto(p, "probe_get")
    /\ UNCHANGED <<op, d, populated, env, refresh, sent, occ, hist, reads,
                   lastObs, outcome, now, probeAt, ctxDeadline, waitDeadline,
                   lastGet, calledAfterFail, preAbsent, readKind>>

\* Deletion probe: the Get, under whatever value of the flag it observes.
ProbeGet(p) ==
    /\ op[p] = "Delete" /\ pc[p] = "probe_get"
    /\ \E r \in GetResps(env[p], Kinds, d[p].id), seen \in FlagViews(p) :
         /\ RemoteCall(p)
         /\ Got(p, "probe", seen)
         /\ reads' = [reads EXCEPT ![p] = Append(@, r.status)]
    /\ Goto(p, "probe_ret")
    /\ UNCHANGED <<op, d, populated, env, refresh, sent, occ, hist, lastObs,
                   outcome, now, probeAt, ctxDeadline, waitDeadline,
                   DisableRetries, written, preAbsent, readKind>>

\* Deletion probe returns: the deferred DisableRetries = false runs, the
\* closure's answer is labelled and the wait counts it.
ProbeReturn(p) ==
    /\ op[p] = "Delete" /\ pc[p] = "probe_ret"
    /\ DisableRetries' = FALSE
    /\ written' = [written EXCEPT ![p] = @ \cup {FALSE}]
    /\ LET label == DeletionLabel(DeletionProbe(reads[p][Len(reads[p])]))
           step == PollStep(label, occ[p], DeletionTargetOccurence,
                            "Absent", "Pending")
       IN /\ hist' = [hist EXCEPT ![p] = Append(@, label)]
          /\ occ' = [occ EXCEPT ![p] = step.occ]
          /\ outcome' = [outcome EXCEPT ![p] = step.outcome]
          /\ probeAt' = [probeAt EXCEPT ![p] = now + 1]
          /\ Goto(p, IF step.outcome = "none" THEN "wait" ELSE "wait_done")
    /\ UNCHANGED <<op, d, populated, env, refresh, sent, reads, lastObs, now,
                   ctxDeadline, waitDeadline, lastGet, calledAfterFail,
                   preAbsent, readKind>>

\* A poll interval passes.
Tick ==
    /\ \E p \in Procs : now <= ctxDeadline[p]
    /\ now' = now + 1
    /\ UNCHANGED <<op, pc, d, populated, env, refresh, sent, occ, hist, reads,
                   lastObs, outcome, result, probeAt, ctxDeadline, waitDeadline,
                   DisableRetries, written, lastGet, calledAfterFail,
                   preAbsent, readKind>>

Step(p) ==
    \/ CreateCall(p)
    \/ ReadGet(p)
    \/ UpdateIPCall(p)
    \/ UpdateCountryCall(p)
    \/ UpdateProbe(p)
    \/ WaitTimeout(p)
    \/ AfterWait(p)
    \/ DeleteCheckIP(p)
    \/ DeleteUntrust(p)
    \/ DeleteCheckCountry(p)
    \/ DeleteCall(p)
    \/ ProbeSetFlag(p)
    \/ ProbeGet(p)
    \/ ProbeReturn(p)

Next == Tick \/ \E p \in Procs : Step(p)

Spec == Init /\ [][Next]_vars

\* The host runs the operation to its end and time passes.
FairSpec == Init /\ [][Next]_vars /\ WF_vars(Tick) /\ \A p \in Procs : WF_vars(Step(p))


\* Two operations run at once on the same client: any operation on an ip
\* location beside a Delete or a Read of another identifier.
ConcInit ==
    InitWith(ConcTimeoutTicks,
             {c \in [Procs -> Setups] :
                /\ c["p1"].op # "None" /\ c["p1"].env = "any"
                /\ c["p1"].ip /\ ~c["p1"].country /\ ~c["p1"].nameChange
                /\ c["p2"].op \in {"Delete", "Read"} /\ c["p2"].env = "any"
                /\ ~c["p2"].ip /\ ~c["p2"].country})

ConcSpec == ConcInit /\ [][Next]_vars

-----------------------------------------------------------------------------
(* Properties *)

Failed(p) == outcome[p] \in {"error", "timeout"}

\* C1 as stated: Update reaches its final Read, and returns success, only after
\* its wait succeeded; Delete returns success only after its deletion wait
\* ended with the object absent; a wait that ends in error or timeout makes the
\* operation fail, and no remote call follows it.
C1_NextPhaseOnlyAfterWait ==
    \A p \in Procs :
      /\ (op[p] = "Update" /\ (pc[p] = "read" \/ result[p] = "success"))
            => outcome[p] = "success"
      /\ (op[p] = "Delete" /\ result[p] = "success") => outcome[p] = "success"
      /\ (Failed(p) /\ pc[p] = "done") => result[p] = "error"
      /\ ~calledAfterFail[p]

\* C1 amended: as C1, but Delete also returns success, with no delete request
\* and no wait, when its pre-delete existence check answered not-found.
C1_NextPhaseAfterWaitOrPrecheck ==
    \A p \in Procs :
      /\ (op[p] = "Update" /\ (pc[p] = "read" \/ result[p] = "success"))
            => outcome[p] = "success"
      /\ (op[p] = "Delete" /\ result[p] = "success")
            => (outcome[p] = "success" \/ (preAbsent[p] /\ outcome[p] = "none"))
      /\ (Failed(p) /\ pc[p] = "done") => result[p] = "error"
      /\ ~calledAfterFail[p]

C1_Witness ==
    \E p \in Procs :
      /\ op[p] = "Update" /\ pc[p] = "read"
      /\ outcome[p] = "success" /\ Len(hist[p]) >= 5

\* C2: a Delete of an identifier that is absent remotely (every remote call on
\* it answers not-found) returns success, whatever blocks are configured.
C2_IdempotentDelete ==
    \A p \in Procs :
      (op[p] = "Delete" /\ env[p] = "absent" /\ pc[p] = "done")
          => result[p] = "success"

\* C3: a Read that fetched an object of neither expected subtype returns an
\* error; a Read that fetched an object returns success only when exactly one
\* subtype matched.
C3_ReadDispatch ==
    \A p \in Procs :
      readKind[p] \in Kinds =>
        /\ readKind[p] = "other" => result[p] = "error"
        /\ result[p] = "success" => readKind[p] \in {"ip", "country"}

\* C4: no read runs under a retry-suppression setting chosen by another
\* operation: a deletion probe's read runs with retries disabled, the read of
\* a Read and of an update refresh runs with retries enabled.
C4_RetryFlagIsolation ==
    \A p \in Procs :
      /\ lastGet[p].kind = "probe" => lastGet[p].disabled
      /\ lastGet[p].kind \in {"read", "refresh"} => ~lastGet[p].disabled

\* C5: after a successful probe read the update refresh function reports
\* "Updated" exactly when every touched field (the display name if it changed,
\* and the fields of the fetched block) equals its desired value.
C5_UpdateConvergence ==
    \A p \in Procs :
      (op[p] = "Update" /\ lastObs[p].status = "ok") =>
        LET label == hist[p][Len(hist[p])]
            match == /\ d[p].nameChange => lastObs[p].name = Desired.name
                     /\ lastObs[p].list = Desired.list
                     /\ lastObs[p].flag = Desired.flag
        IN /\ label \in {"Pending", "Updated"}
           /\ (label = "Updated") <=> match

\* C6: every deletion probe reports "Pending" when its read succeeded and
\* "Absent" when it answered not-found; any other read error is the last
\* observation, ends the wait in error and makes Delete fail.
C6_DeleteConfirmation ==
    \A p \in Procs :
      op[p] = "Delete" =>
        /\ Len(hist[p]) <= Len(reads[p])
        /\ \A i \in 1..Len(hist[p]) :
             /\ reads[p][i] = "ok" => hist[p][i] = "Pending"
             /\ reads[p][i] = "notfound" => hist[p][i] = "Absent"
             /\ reads[p][i] = "error" =>
                  /\ i = Len(hist[p])
                  /\ outcome[p] = "error"
                  /\ pc[p] = "done" => result[p] = "error"

C6_Witness ==
    \E p \in Procs :
      /\ op[p] = "Delete"
      /\ reads[p] = <<"ok", "ok", "notfound">>
      /\ hist[p] = <<"Pending", "Pending", "Absent">>

\* C7: a not-found answer to the Read that ends Create or Update is an error
\* of that operation, so a Create or Update that returned success left a
\* non-empty identifier.
C7_NotFoundIsErrorWhenExpected ==
    \A p \in Procs :
      op[p] \in {"Create", "Update"} =>
        /\ readKind[p] = "notfound" => result[p] = "error"
        /\ (pc[p] = "done" /\ result[p] = "success") => d[p].id # ""

\* C8: the update wait succeeds only when the last 5 probes, and so at least 5
\* probes, all reported "Updated".
C8_Debounce ==
    \A p \in Procs :
      (op[p] = "Update" /\ outcome[p] = "success") =>
        /\ Len(hist[p]) >= 5
        /\ \A i \in 1..Len(hist[p]) :
             i + 5 > Len(hist[p]) => hist[p][i] = "Updated"

C8_Witness ==
    \E p \in Procs :
      /\ op[p] = "Update" /\ outcome[p] = "success"
      /\ Len(hist[p]) = 6 /\ hist[p][1] = "Pending"

\* C9: an update wait whose probes never leave "Pending" ends with a timeout,
\* Update then returns a failure, and no probe follows the timeout.
C9_TimeoutTermination ==
    /\ \A p \in Procs :
         (op[p] = "Update" /\ env[p] = "stuck" /\ pc[p] = "wait" /\ refresh[p] # "nil")
            ~> (pc[p] = "done" /\ outcome[p] = "timeout" /\ result[p] = "error")
    /\ [][\A p \in Procs : outcome[p] = "timeout" => hist'[p] = hist[p]]_vars

C9_Witness ==
    \E p \in Procs :
      /\ op[p] = "Update" /\ env[p] = "stuck"
      /\ outcome[p] = "timeout" /\ result[p] = "error"
      /\ Len(hist[p]) >= 3
      /\ \A i \in 1..Len(hist[p]) : hist[p][i] = "Pending"

\* C10: when Update starts its wait a refresh function has been assigned and
\* an update request has been issued.
C10_RefreshAssigned ==
    \A p \in Procs :
      (op[p] = "Update" /\ pc[p] = "wait") => (refresh[p] # "nil" /\ sent[p])

=============================================================================
